---- MODULE Spec2Model ----
(***************************************************************************)
(* DemARK notebooks as state machines.                                     *)
(*                                                                         *)
(* Four independent notebooks are modelled, each a linear script whose     *)
(* cells call the external HARK toolkit:                                   *)
(*   "alt"  Alternative-Combos-Of-Parameter-Values.ipynb                   *)
(*   "lc"   LC-Model-Expected-Vs-Realized-Income-Growth.ipynb              *)
(*   "olg"  DiamondOLG.ipynb (plot1, plot3)                                *)
(*   "sav"  PerfForesightCRRA-SavingRate.ipynb                             *)
(* The variable nb says which notebook a behaviour runs; pc is the         *)
(* position in it.  Calls into the toolkit (solve, initialize_sim,         *)
(* simulate) are atomic steps whose outcome (return or raise, and the data *)
(* produced) is chosen nondeterministically: the toolkit is not part of    *)
(* the repository.                                                         *)
(*                                                                         *)
(* Numbers are exact rationals [nan, num, den]; NaN is [nan |-> TRUE].     *)
(***************************************************************************)
EXTENDS Integers, Sequences, FiniteSets, TLC

VARIABLES nb, pc, log, MyTypes, idx, solution, params_of, aLvl, MPCnow,
          history, aLvl_all, raw_data, ret, stdout, env, heap, args, calls,
          frame

vars == <<nb, pc, log, MyTypes, idx, solution, params_of, aLvl, MPCnow,
          history, aLvl_all, raw_data, ret, stdout, env, heap, args, calls,
          frame>>

(***************************************************************************)
(* Bounds of the model.                                                    *)
(***************************************************************************)
\* longest list MyTypes
MaxTypes == 2
\* consumers simulated per agent type (AgentCount of the calibration)
AgentCount == 1
\* longest percentiles argument drawn for describeMPCdstn
MaxPct == 2
\* a quarterly MPC is v / MPCDen
MPCDen == 4

\* periods of the life cycle (death_age - birth_age), at most
MaxCycle == 2
\* periods simulated in the life-cycle notebook (T_sim)
LcTSim == 2
\* consumers simulated in the life-cycle notebook (AgentCount)
LcAgentCount == 1
\* widget callbacks run in one behaviour, at most
MaxCalls == 2
\* arrows the while loop of plot3 draws, at most
MaxArrows == 2

MPCVals == {1, 3}
AssetVals == {0, 1}
StdVals == {1, 2}
ShockVals == {1, 2}
DiscFacVals == {950, 990}

(***************************************************************************)
(* Program constants.                                                      *)
(***************************************************************************)
\* np.linspace(0.05,0.95,19): multiples of 1/20; a percentile is a / PctDen
PctDen == 20
\* percentiles=[0.2,0.4,0.6,0.8] of get_lorenz_shares: multiples of 1/5
LorenzDen == 5
\* lorenz_SCF, rounded to multiples of 1/500
SCFDen == 500
lorenz_SCF == <<-1, 5, 28, 88>>
lorenz_percentiles == <<1, 2, 3, 4>>
\* the exponent of the quarterly-to-annual conversion
AnnualPower == 4
\* birth_age of the life-cycle calibration
birth_age == 21
\* for i in range(3) of plot1
Plot1Arrows == 3

(***************************************************************************)
(* Agents.  The agent types of MyTypes are 1..MaxTypes; the other          *)
(* notebooks' agents follow.                                               *)
(***************************************************************************)
TypeIds == 1..MaxTypes
Agent == MaxTypes + 1
Agent_nt == MaxTypes + 2
PFagent == MaxTypes + 3
PFsavrate == MaxTypes + 4
AgentIds == 1..(MaxTypes + 4)

(***************************************************************************)
(* Values.                                                                 *)
(***************************************************************************)
None == [kind |-> "None"]
NaN == [nan |-> TRUE]
Num(n, d) == [nan |-> FALSE, num |-> n, den |-> d]

RECURSIVE Gcd(_, _)
Gcd(a, b) == IF b = 0 THEN a ELSE Gcd(b, a % b)

Abs(x) == IF x < 0 THEN 0 - x ELSE x

\* a rational in lowest terms, with a positive denominator
Rat(n, d) ==
    LET g == Gcd(Abs(n), Abs(d))
    IN  Num(n \div g, d \div g)

RECURSIVE SeqSum(_)
SeqSum(s) == IF s = <<>> THEN 0 ELSE Head(s) + SeqSum(Tail(s))

\* np.concatenate([arr[t] for t in types])
RECURSIVE np_concatenate(_, _)
np_concatenate(arr, types) ==
    IF types = <<>> THEN <<>>
    ELSE arr[Head(types)] \o np_concatenate(arr, Tail(types))

Insert(s, x) ==
    LET k == Cardinality({j \in 1..Len(s) : s[j] <= x})
    IN  SubSeq(s, 1, k) \o <<x>> \o SubSeq(s, k + 1, Len(s))

\* data[np.argsort(data)]: a sorted copy
RECURSIVE np_sort(_)
np_sort(s) == IF s = <<>> THEN <<>> ELSE Insert(np_sort(Tail(s)), Head(s))

(***************************************************************************)
(* HARK.utilities.get_percentiles: the inverse of the empirical CDF,       *)
(* linearly interpolated between the points (i/n, x_(i)), NaN outside      *)
(* them and NaN for fewer than two data points.                            *)
(***************************************************************************)
InvCDF(xs, a) ==
    LET n == Len(xs)
        t == a * n
        i == t \div PctDen
        r == t % PctDen
    IN  IF i < 1 \/ a > PctDen THEN NaN
        ELSE IF r = 0 THEN Num(xs[i] * PctDen, MPCDen * PctDen)
        ELSE Num(xs[i] * PctDen + r * (xs[i + 1] - xs[i]), MPCDen * PctDen)

get_percentiles(data, percentiles) ==
    IF Len(data) < 2 THEN [j \in 1..Len(percentiles) |-> NaN]
    ELSE LET xs == np_sort(data)
         IN  [j \in 1..Len(percentiles) |-> InvCDF(xs, percentiles[j])]

(***************************************************************************)
(* HARK.utilities.get_lorenz_shares: the share of the total held by the    *)
(* bottom p of the sorted data, linearly interpolated between the points   *)
(* (i/n, (x_(1)+...+x_(i))/total); NaN when the total is zero.             *)
(***************************************************************************)
LorenzShare(xs, k) ==
    LET n == Len(xs)
        t == k * n
        i == t \div LorenzDen
        r == t % LorenzDen
        tot == SeqSum(xs)
        low == SeqSum(SubSeq(xs, 1, i))
    IN  IF tot = 0 THEN NaN
        ELSE IF r = 0 THEN Num(LorenzDen * low, LorenzDen * tot)
        ELSE Num(LorenzDen * low + r * xs[i + 1], LorenzDen * tot)

get_lorenz_shares(data, percentiles) ==
    LET xs == np_sort(data)
    IN  [j \in 1..Len(percentiles) |-> LorenzShare(xs, percentiles[j])]

(***************************************************************************)
(* 1.0 - (1.0 - q)**4, elementwise.                                       *)
(***************************************************************************)
Annual(q) ==
    IF q.nan THEN NaN
    ELSE Num(q.den ^ AnnualPower - (q.den - q.num) ^ AnnualPower,
             q.den ^ AnnualPower)

\* np.sqrt of a rational: NaN below zero, else the root of num/den
Sqrt(r) == IF r.num < 0 THEN NaN
           ELSE [nan |-> FALSE, root |-> TRUE, num |-> r.num, den |-> r.den]

(***************************************************************************)
(* describeMPCdstn, lines 288-291: the annual MPC at every requested       *)
(* percentile.                                                             *)
(***************************************************************************)
MPCpercentiles_firstTypeOnly(SomeTypes, percentiles) ==
    LET MPC_sim == MPCnow[Head(SomeTypes)]
        MPCpercentiles_quarterly == get_percentiles(MPC_sim, percentiles)
    IN  [j \in 1..Len(percentiles) |-> Annual(MPCpercentiles_quarterly[j])]

MPCpercentiles_annual(SomeTypes, percentiles) ==
    LET MPC_sim == np_concatenate(MPCnow, SomeTypes)
        MPCpercentiles_quarterly == get_percentiles(MPC_sim, percentiles)
    IN  [j \in 1..Len(percentiles) |-> Annual(MPCpercentiles_quarterly[j])]

(***************************************************************************)
(* describeMPCdstn, lines 293-294: the lines the for loop prints.  A line  *)
(* is the pair of str(100*percentiles[j]) and str(MPCpercentiles_annual[j]).*)
(***************************************************************************)
describeMPCdstn_lastOnly(SomeTypes, percentiles) ==
    LET MPCpercentiles == MPCpercentiles_annual(SomeTypes, percentiles)
        n == Len(percentiles)
    IN  IF n = 0 THEN <<>>
        ELSE << [label |-> Num(100 * percentiles[n], PctDen),
                 value |-> MPCpercentiles[n]] >>

describeMPCdstn(SomeTypes, percentiles) ==
    LET MPCpercentiles == MPCpercentiles_annual(SomeTypes, percentiles)
    IN  [j \in 1..Len(percentiles) |->
            [label |-> Num(100 * percentiles[j], PctDen),
             value |-> MPCpercentiles[j]]]

(***************************************************************************)
(* calcLorenzDistance, line 233:                                           *)
(* np.sqrt(np.sum((lorenz_SCF - lorenz_sim)**2)).                          *)
(***************************************************************************)
lorenz_distance_unsquared(lorenz_sim) ==
    IF \E k \in 1..Len(lorenz_sim) : lorenz_sim[k].nan THEN NaN
    ELSE LET d == lorenz_sim[1].den
             diff(k) == lorenz_SCF[k] * d - SCFDen * lorenz_sim[k].num
             total == SeqSum([k \in 1..Len(lorenz_SCF) |-> diff(k)])
         IN  Sqrt(Rat(total, SCFDen * d))

lorenz_distance(lorenz_sim) ==
    IF \E k \in 1..Len(lorenz_sim) : lorenz_sim[k].nan THEN NaN
    ELSE LET d == lorenz_sim[1].den
             diff(k) == lorenz_SCF[k] * d - SCFDen * lorenz_sim[k].num
             total == SeqSum([k \in 1..Len(lorenz_SCF) |-> diff(k) * diff(k)])
         IN  Sqrt(Rat(total, (SCFDen * d) * (SCFDen * d)))

(***************************************************************************)
(* calcLorenzDistance, lines 224-236.  The comprehension of line 227 runs  *)
(* over the global MyTypes, not over the parameter SomeTypes.              *)
(***************************************************************************)
calcLorenzDistance(SomeTypes) ==
    LET aLvl_sim == np_concatenate(aLvl, MyTypes)
        lorenz_sim == get_lorenz_shares(aLvl_sim, lorenz_percentiles)
    IN  lorenz_distance(lorenz_sim)

(***************************************************************************)
(* The external toolkit's calls.  Every call is logged with its outcome;   *)
(* ok = FALSE is the call raising.                                         *)
(***************************************************************************)
Call(op, a, ok) == [op |-> op, ag |-> a, ok |-> ok]

\* a solved policy is determined by the parameters it was solved under
Policy(p) == [solved_from |-> p]

\* AgentType.solve(): fills solution, or raises
solve(a, ok) ==
    /\ log' = Append(log, Call("solve", a, ok))
    /\ solution' = IF ok THEN [solution EXCEPT ![a] = Policy(params_of[a])]
                   ELSE solution

\* AgentType.initialize_sim(): clears what an earlier simulation left
initialize_sim(a, ok) ==
    /\ log' = Append(log, Call("initialize_sim", a, ok))
    /\ aLvl' = IF ok THEN [aLvl EXCEPT ![a] = <<>>] ELSE aLvl
    /\ MPCnow' = IF ok THEN [MPCnow EXCEPT ![a] = <<>>] ELSE MPCnow
    /\ history' = IF ok THEN [history EXCEPT ![a] = <<>>] ELSE history

\* solution[0].cFunc(m): a read of the solved policy
cFunc(a) == log' = Append(log, Call("cFunc", a, TRUE))

\* AgentType.<name> = value, or assign_parameters(<name> = value)
SetParam(a, name, value) ==
    /\ log' = Append(log, Call(name, a, TRUE))
    /\ params_of' = [params_of EXCEPT ![a] =
           [k \in DOMAIN params_of[a] \cup {name} |->
               IF k = name THEN value ELSE params_of[a][k]]]

(***************************************************************************)
(* Alternative-Combos-Of-Parameter-Values.ipynb                            *)
(***************************************************************************)
\* the entries of cstwMPC_calibrated_parameters the model keeps, in 1/1000
cstwMPC_calibrated_parameters ==
    [k \in {"CRRA", "DiscFac", "cycles", "T_cycle"} |->
        CASE k = "CRRA" -> <<1000>>
          [] k = "DiscFac" -> <<970>>
          [] k = "cycles" -> <<0>>
          [] k = "T_cycle" -> <<1>>]

\* the arrays one simulate() leaves on an agent type
SimArrays == [1..AgentCount -> AssetVals]
MPCArrays == [1..AgentCount -> MPCVals]

\* for ThisType in tqdm(MyTypes): the element the iteration binds
ThisType_reversed == MyTypes[Len(MyTypes) + 1 - idx]

ThisType == MyTypes[idx]

\* the statement that follows op in the body of the loop
AltAfter_swapped(op) ==
    CASE op = "solve" -> "alt_simulate"
      [] op = "simulate" -> "alt_initialize_sim"
      [] op = "initialize_sim" -> "alt_for"

AltAfter(op) ==
    CASE op = "solve" -> "alt_initialize_sim"
      [] op = "initialize_sim" -> "alt_simulate"
      [] op = "simulate" -> "alt_for"

\* where control goes when a call raises: nothing catches it
AltOnRaise_swallowed(op) == AltAfter(op)

AltOnRaise(op) == "raised"

\* the iterator of the for statement: binds the next element, or leaves
\* the cell when the list is exhausted
AltFor ==
    /\ nb = "alt" /\ pc = "alt_for"
    /\ IF idx < Len(MyTypes)
       THEN idx' = idx + 1 /\ pc' = "alt_solve"
       ELSE idx' = idx /\ pc' = "alt_aLvl_all"
    /\ UNCHANGED <<nb, log, MyTypes, solution, params_of, aLvl, MPCnow,
                   history, aLvl_all, raw_data, ret, stdout, env, heap,
                   args, calls, frame>>

AltSolve ==
    /\ nb = "alt" /\ pc = "alt_solve"
    /\ \E ok \in BOOLEAN :
          /\ solve(ThisType, ok)
          /\ pc' = IF ok THEN AltAfter("solve") ELSE AltOnRaise("solve")
    /\ UNCHANGED <<nb, MyTypes, idx, params_of, aLvl, MPCnow, history,
                   aLvl_all, raw_data, ret, stdout, env, heap, args,
                   calls, frame>>

AltInitializeSim ==
    /\ nb = "alt" /\ pc = "alt_initialize_sim"
    /\ \E ok \in BOOLEAN :
          /\ initialize_sim(ThisType, ok)
          /\ pc' = IF ok THEN AltAfter("initialize_sim")
                   ELSE AltOnRaise("initialize_sim")
    /\ UNCHANGED <<nb, MyTypes, idx, solution, params_of, aLvl_all, raw_data,
                   ret, stdout, env, heap, args, calls, frame>>

AltSimulate ==
    /\ nb = "alt" /\ pc = "alt_simulate"
    /\ \E ok \in BOOLEAN, a \in SimArrays, m \in MPCArrays :
          /\ log' = Append(log, Call("simulate", ThisType, ok))
          /\ aLvl' = IF ok THEN [aLvl EXCEPT ![ThisType] = a] ELSE aLvl
          /\ MPCnow' = IF ok THEN [MPCnow EXCEPT ![ThisType] = m] ELSE MPCnow
          /\ pc' = IF ok THEN AltAfter("simulate") ELSE AltOnRaise("simulate")
    /\ UNCHANGED <<nb, MyTypes, idx, solution, params_of, history, aLvl_all,
                   raw_data, ret, stdout, env, heap, args, calls, frame>>

\* aLvl_all = np.concatenate([...]); np.concatenate raises on an empty list
AltConcatenate ==
    /\ nb = "alt" /\ pc = "alt_aLvl_all"
    /\ IF MyTypes = <<>>
       THEN pc' = "raised" /\ UNCHANGED aLvl_all
       ELSE /\ aLvl_all' = np_concatenate(aLvl, MyTypes)
            /\ pc' = "alt_functions"
    /\ UNCHANGED <<nb, log, MyTypes, idx, solution, params_of, aLvl, MPCnow,
                   history, raw_data, ret, stdout, env, heap, args, calls,
                   frame>>

\* the lists of simulated types a caller can pass: the slices of MyTypes
Slices(types) ==
    {SubSeq(types, i, j) : i \in 1..Len(types), j \in 1..Len(types)} \ {<<>>}

\* a call calcLorenzDistance(SomeTypes)
Call_calcLorenzDistance(SomeTypes) ==
    /\ args' = [fn |-> "calcLorenzDistance", SomeTypes |-> SomeTypes,
                percentiles |-> <<>>]
    /\ ret' = calcLorenzDistance(SomeTypes)
    /\ UNCHANGED <<solution, aLvl, MPCnow, history, stdout>>

\* a call describeMPCdstn(SomeTypes, percentiles)
Call_describeMPCdstn(SomeTypes, percentiles) ==
    /\ args' = [fn |-> "describeMPCdstn", SomeTypes |-> SomeTypes,
                percentiles |-> percentiles]
    /\ stdout' = stdout \o describeMPCdstn(SomeTypes, percentiles)
    /\ ret' = None
    /\ UNCHANGED <<solution, aLvl, MPCnow, history>>

\* np.linspace(0.05,0.95,19), in 1/PctDen
linspace_percentiles == [j \in 1..(PctDen - 1) |-> j]

\* the exercise of cell 6: calcLorenzDistance is defined there and left for
\* the reader to call on a list of simulated types
AltCalcLorenzDistance ==
    /\ nb = "alt" /\ pc = "alt_functions"
    /\ \E SomeTypes \in Slices(MyTypes) : Call_calcLorenzDistance(SomeTypes)
    /\ UNCHANGED <<nb, pc, log, MyTypes, idx, params_of, aLvl_all, raw_data,
                   env, heap, calls, frame>>

\* describeMPCdstn(MyTypes,np.linspace(0.05,0.95,19))
AltDescribeMPCdstn ==
    /\ nb = "alt" /\ pc = "alt_functions"
    /\ Call_describeMPCdstn(MyTypes, linspace_percentiles)
    /\ pc' = "done"
    /\ UNCHANGED <<nb, log, MyTypes, idx, params_of, aLvl_all, raw_data,
                   env, heap, calls, frame>>

AltNext ==
    \/ AltFor
    \/ AltSolve
    \/ AltInitializeSim
    \/ AltSimulate
    \/ AltConcatenate
    \/ AltCalcLorenzDistance
    \/ AltDescribeMPCdstn

(***************************************************************************)
(* LC-Model-Expected-Vs-Realized-Income-Growth.ipynb                       *)
(*                                                                         *)
(* A parameter mapping is an object of the heap; env binds the notebook's  *)
(* names to objects (0: not bound yet).  A mapping's values are kept by    *)
(* value: no statement of the notebook changes a list in place.            *)
(***************************************************************************)
DictNames == {"init_lifecycle", "time_params", "income_params", "params",
              "params_no_transitory"}

Val(name) == heap[env[name]]

\* copy(d): a new mapping with the entries of d
copy_alias(d) == [id |-> d, heap |-> heap]

copy(d) == [id |-> Len(heap) + 1, heap |-> Append(heap, heap[d])]

\* d.update(u): the entries of u replace or extend those of d
dict_update(d, u) ==
    [k \in DOMAIN d \cup DOMAIN u |-> IF k \in DOMAIN u THEN u[k] ELSE d[k]]

\* the default calibration of the toolkit, with a one-period cycle
init_lifecycle(std) ==
    [k \in {"T_cycle", "TranShkStd", "LivPrb", "UnempPrb", "AgentCount",
            "T_sim"} |->
        CASE k = "T_cycle" -> <<1>>
          [] k = "TranShkStd" -> <<std>>
          [] k = "LivPrb" -> <<990>>
          [] k = "UnempPrb" -> <<50>>
          [] k = "AgentCount" -> <<10000>>
          [] k = "T_sim" -> <<120>>]

track_vars == <<"pLvl", "t_age", "PermShk", "TranShk">>

\* the literal of lines 105-116
params_literal(T) ==
    [k \in {"LivPrb", "pLvlInitStd", "PermGroFacAgg", "UnempPrb",
            "UnempPrbRet", "track_vars", "AgentCount", "T_sim"} |->
        CASE k = "LivPrb" -> [t \in 1..T |-> 999]
          [] k = "pLvlInitStd" -> <<0>>
          [] k = "PermGroFacAgg" -> <<1000>>
          [] k = "UnempPrb" -> <<0>>
          [] k = "UnempPrbRet" -> <<0>>
          [] k = "track_vars" -> track_vars
          [] k = "AgentCount" -> <<LcAgentCount>>
          [] k = "T_sim" -> <<LcTSim>>]

\* {"TranShkStd": [0.0]}
no_transitory_literal_single == [k \in {"TranShkStd"} |-> <<0>>]

\* the literal of lines 359-361: [0.0] * len(params["TranShkStd"])
no_transitory_literal ==
    [k \in {"TranShkStd"} |-> [t \in 1..Len(Val("params")["TranShkStd"]) |-> 0]]

\* income_params, liv_prb, time_params: what the parsers of the toolkit
\* return for a life of T periods
LcParse ==
    /\ nb = "lc" /\ pc = "lc_parse"
    /\ \E T \in 1..MaxCycle : \E stds \in [1..T -> StdVals] :
          /\ heap' = heap \o << [k \in {"TranShkStd", "PermGroFac"} |->
                                    IF k = "TranShkStd" THEN stds
                                    ELSE [t \in 1..T |-> 1000]],
                                [k \in {"T_cycle", "T_age"} |->
                                    IF k = "T_cycle" THEN <<T>> ELSE <<T + 1>>] >>
          /\ env' = [env EXCEPT !["income_params"] = Len(heap) + 1,
                                !["time_params"] = Len(heap) + 2]
    /\ pc' = "lc_copy"
    /\ UNCHANGED <<nb, log, MyTypes, idx, solution, params_of, aLvl, MPCnow,
                   history, aLvl_all, raw_data, ret, stdout, args, calls,
                   frame>>

\* name = copy(source)
LcCopy(at, name, source, next) ==
    /\ nb = "lc" /\ pc = at
    /\ LET c == copy(env[source])
       IN  /\ heap' = c.heap
           /\ env' = [env EXCEPT ![name] = c.id]
    /\ pc' = next
    /\ UNCHANGED <<nb, log, MyTypes, idx, solution, params_of, aLvl, MPCnow,
                   history, aLvl_all, raw_data, ret, stdout, args, calls,
                   frame>>

\* name.update(u)
LcUpdate(at, name, u, next) ==
    /\ nb = "lc" /\ pc = at
    /\ heap' = [heap EXCEPT ![env[name]] = dict_update(heap[env[name]], u)]
    /\ pc' = next
    /\ UNCHANGED <<nb, log, MyTypes, idx, solution, params_of, aLvl, MPCnow,
                   history, aLvl_all, raw_data, ret, stdout, env, args, calls,
                   frame>>

LcCopyParams == LcCopy("lc_copy", "params", "init_lifecycle", "lc_update_time")

LcUpdateTime ==
    LcUpdate("lc_update_time", "params", Val("time_params"), "lc_update_income")

LcUpdateIncome ==
    LcUpdate("lc_update_income", "params", Val("income_params"),
             "lc_update_literal")

LcUpdateLiteral ==
    LcUpdate("lc_update_literal", "params",
             params_literal(Val("time_params")["T_cycle"][1]), "lc_construct")

LcCopyNoTransitory ==
    LcCopy("lc_copy_nt", "params_no_transitory", "params", "lc_update_nt")

LcUpdateNoTransitory ==
    LcUpdate("lc_update_nt", "params_no_transitory", no_transitory_literal,
             "lc_construct_nt")

\* a = IndShockConsumerType(**name)
LcConstruct(at, a, name, next) ==
    /\ nb = "lc" /\ pc = at
    /\ log' = Append(log, Call("construct", a, TRUE))
    /\ params_of' = [params_of EXCEPT ![a] = Val(name)]
    /\ pc' = next
    /\ UNCHANGED <<nb, MyTypes, idx, solution, aLvl, MPCnow, history,
                   aLvl_all, raw_data, ret, stdout, env, heap, args, calls,
                   frame>>

LcSolve(at, a, next) ==
    /\ nb = "lc" /\ pc = at
    /\ \E ok \in BOOLEAN :
          /\ solve(a, ok)
          /\ pc' = IF ok THEN next ELSE "raised"
    /\ UNCHANGED <<nb, MyTypes, idx, params_of, aLvl, MPCnow, history,
                   aLvl_all, raw_data, ret, stdout, env, heap, args, calls,
                   frame>>

LcInitializeSim(at, a, next) ==
    /\ nb = "lc" /\ pc = at
    /\ \E ok \in BOOLEAN :
          /\ initialize_sim(a, ok)
          /\ pc' = IF ok THEN next ELSE "raised"
    /\ UNCHANGED <<nb, MyTypes, idx, solution, params_of, aLvl_all, raw_data,
                   ret, stdout, env, heap, args, calls, frame>>

\* the ages one consumer slot records: a newborn is 1, and every period
\* the consumer grows a period older or is replaced by a newborn
AgeColumns(T) ==
    {c \in [1..T -> 1..T] :
        /\ c[1] = 1
        /\ \A t \in 1..(T - 1) : c[t + 1] = c[t] + 1 \/ c[t + 1] = 1}

\* the history simulate() records for the tracked variables: one row per
\* period, one column per consumer
Histories(T, K) ==
    {[v \in {track_vars[j] : j \in 1..Len(track_vars)} |->
         IF v = "t_age" THEN [t \in 1..T |-> [i \in 1..K |-> cols[i][t]]]
         ELSE [t \in 1..T |-> [i \in 1..K |-> lvl]]] :
       cols \in [1..K -> AgeColumns(T)], lvl \in ShockVals}

LcSimulate(at, a, next) ==
    /\ nb = "lc" /\ pc = at
    /\ \E ok \in BOOLEAN :
       \E h \in Histories(params_of[a]["T_sim"][1], params_of[a]["AgentCount"][1]) :
          /\ log' = Append(log, Call("simulate", a, ok))
          /\ history' = IF ok THEN [history EXCEPT ![a] = h] ELSE history
          /\ pc' = IF ok THEN next ELSE "raised"
    /\ UNCHANGED <<nb, MyTypes, idx, solution, params_of, aLvl, MPCnow,
                   aLvl_all, raw_data, ret, stdout, env, heap, args, calls,
                   frame>>

\* M.T.flatten(): consumer by consumer, each consumer's periods in order
T_flatten(M) ==
    LET T == Len(M)
        K == Len(M[1])
    IN  [n \in 1..(T * K) |-> M[((n - 1) % T) + 1][((n - 1) \div T) + 1]]

\* the ages shifted in place: history["t_age"] += birth_age - 1
RawData_inplace(a) ==
    /\ history' = [history EXCEPT ![a]["t_age"] =
           [t \in 1..Len(history[a]["t_age"]) |->
               [i \in 1..Len(history[a]["t_age"][t]) |->
                   history[a]["t_age"][t][i] + birth_age - 1]]]
    /\ raw_data' =
        [k \in {"Age", "pLvl", "PermShk", "TranShk"} |->
            IF k = "Age" THEN T_flatten(history'[a]["t_age"])
            ELSE T_flatten(history[a][k])]

\* raw_data = {...}: new arrays built from the history of agent a
RawData(a) ==
    /\ raw_data' =
        [k \in {"Age", "pLvl", "PermShk", "TranShk"} |->
            IF k = "Age"
            THEN LET flat == T_flatten(history[a]["t_age"])
                 IN  [n \in 1..Len(flat) |-> flat[n] + birth_age - 1]
            ELSE T_flatten(history[a][k])]
    /\ UNCHANGED history

LcRawData(at, a, next) ==
    /\ nb = "lc" /\ pc = at
    /\ RawData(a)
    /\ pc' = next
    /\ UNCHANGED <<nb, log, MyTypes, idx, solution, params_of, aLvl, MPCnow,
                   aLvl_all, ret, stdout, env, heap, args, calls, frame>>

LcConstructAgent == LcConstruct("lc_construct", Agent, "params", "lc_solve")
LcSolveAgent == LcSolve("lc_solve", Agent, "lc_initialize_sim")
LcInitializeSimAgent ==
    LcInitializeSim("lc_initialize_sim", Agent, "lc_simulate")
LcSimulateAgent == LcSimulate("lc_simulate", Agent, "lc_raw_data")
LcRawDataAgent == LcRawData("lc_raw_data", Agent, "lc_copy_nt")

LcConstructAgent_nt ==
    LcConstruct("lc_construct_nt", Agent_nt, "params_no_transitory",
                "lc_solve_nt")
LcSolveAgent_nt == LcSolve("lc_solve_nt", Agent_nt, "lc_initialize_sim_nt")
LcInitializeSimAgent_nt ==
    LcInitializeSim("lc_initialize_sim_nt", Agent_nt, "lc_simulate_nt")
LcSimulateAgent_nt == LcSimulate("lc_simulate_nt", Agent_nt, "lc_raw_data_nt")
LcRawDataAgent_nt == LcRawData("lc_raw_data_nt", Agent_nt, "done")

LcNext ==
    \/ LcParse
    \/ LcCopyParams
    \/ LcUpdateTime
    \/ LcUpdateIncome
    \/ LcUpdateLiteral
    \/ LcConstructAgent
    \/ LcSolveAgent
    \/ LcInitializeSimAgent
    \/ LcSimulateAgent
    \/ LcRawDataAgent
    \/ LcCopyNoTransitory
    \/ LcUpdateNoTransitory
    \/ LcConstructAgent_nt
    \/ LcSolveAgent_nt
    \/ LcInitializeSimAgent_nt
    \/ LcSimulateAgent_nt
    \/ LcRawDataAgent_nt

(***************************************************************************)
(* DiamondOLG.ipynb: plot1 and plot3, run by the sliders of interact.      *)
(* args holds the arguments of the running call; the figure's elements     *)
(* are logged as they are drawn.                                           *)
(***************************************************************************)
\* the entries of init_perfect_foresight the model keeps
init_perfect_foresight ==
    [k \in {"CRRA", "DiscFac", "LivPrb", "PermGroFac", "cycles", "T_cycle"} |->
        CASE k = "CRRA" -> <<2000>>
          [] k = "DiscFac" -> <<960>>
          [] k = "LivPrb" -> <<980>>
          [] k = "PermGroFac" -> <<1010>>
          [] k = "cycles" -> <<1>>
          [] k = "T_cycle" -> <<1>>]

\* the statements between the construction of PFagent and the figure
PlotStatements_solveEarly ==
    <<"cycles", "T_cycle", "PermGroFac", "LivPrb", "DiscFac", "solve", "CRRA">>

PlotStatements ==
    <<"cycles", "T_cycle", "PermGroFac", "LivPrb", "DiscFac", "CRRA", "solve">>

\* the discount factor taken from the agent as constructed, not from the
\* argument of the call
PlotValue_stale(name) ==
    CASE name = "cycles" -> <<1>>
      [] name = "T_cycle" -> <<2>>
      [] name = "PermGroFac" -> <<0>>
      [] name = "LivPrb" -> <<1000>>
      [] name = "DiscFac" -> params_of[PFagent]["DiscFac"]
      [] name = "CRRA" -> <<1001>>

\* the value each statement assigns; Beta = DiscFac**YearsPerGeneration is
\* identified by the DiscFac it is computed from
PlotValue(name) ==
    CASE name = "cycles" -> <<1>>
      [] name = "T_cycle" -> <<2>>
      [] name = "PermGroFac" -> <<0>>
      [] name = "LivPrb" -> <<1000>>
      [] name = "DiscFac" -> <<args.DiscFac>>
      [] name = "CRRA" -> <<1001>>

\* what a raise inside a plot function does: interact reports it and the
\* widget waits for the next slider move
PlotOnRaise == "olg_idle"

\* a slider moves: interact calls plot1 or plot3 with the sliders' values,
\* and the function builds a fresh agent
PlotCall ==
    /\ nb = "olg" /\ pc = "olg_idle" /\ calls < MaxCalls
    /\ \E fn \in {"plot1", "plot3"}, d \in DiscFacVals :
          args' = [fn |-> fn, DiscFac |-> d]
    /\ calls' = calls + 1
    /\ log' = Append(log, Call("construct", PFagent, TRUE))
    /\ params_of' = [params_of EXCEPT ![PFagent] = init_perfect_foresight]
    /\ solution' = [solution EXCEPT ![PFagent] = None]
    /\ idx' = 1
    /\ pc' = "plot_setup"
    /\ UNCHANGED <<nb, MyTypes, aLvl, MPCnow, history, aLvl_all, raw_data,
                   ret, stdout, env, heap, frame>>

PlotAfterSetup == IF idx = Len(PlotStatements) THEN "plot_figure" ELSE "plot_setup"

PlotAssign ==
    /\ nb = "olg" /\ pc = "plot_setup" /\ PlotStatements[idx] # "solve"
    /\ SetParam(PFagent, PlotStatements[idx], PlotValue(PlotStatements[idx]))
    /\ pc' = PlotAfterSetup
    /\ idx' = idx + 1
    /\ UNCHANGED <<nb, MyTypes, solution, aLvl, MPCnow, history, aLvl_all,
                   raw_data, ret, stdout, env, heap, args, calls, frame>>

PlotSolve ==
    /\ nb = "olg" /\ pc = "plot_setup" /\ PlotStatements[idx] = "solve"
    /\ \E ok \in BOOLEAN :
          /\ solve(PFagent, ok)
          /\ pc' = IF ok THEN PlotAfterSetup ELSE PlotOnRaise
    /\ idx' = idx + 1
    /\ UNCHANGED <<nb, MyTypes, params_of, aLvl, MPCnow, history, aLvl_all,
                   raw_data, ret, stdout, env, heap, args, calls, frame>>

\* plt.figure and the curves: two in plot1, three in plot3
PlotFigure ==
    /\ nb = "olg" /\ pc = "plot_figure"
    /\ log' = log \o << Call("figure", PFagent, TRUE) >>
                  \o [j \in 1..(IF args.fn = "plot1" THEN 2 ELSE 3) |->
                         Call("plot", PFagent, TRUE)]
    /\ idx' = 0
    /\ pc' = "plot_path"
    /\ UNCHANGED <<nb, MyTypes, solution, params_of, aLvl, MPCnow, history,
                   aLvl_all, raw_data, ret, stdout, env, heap, args, calls,
                   frame>>

\* one pass of the path loop: the policy is evaluated, two arrows are drawn
PlotArrow ==
    /\ nb = "olg" /\ pc = "plot_path"
    /\ IF args.fn = "plot1" THEN idx < Plot1Arrows ELSE idx < MaxArrows
    /\ log' = log \o << Call("cFunc", PFagent, TRUE),
                        Call("arrow", PFagent, TRUE),
                        Call("arrow", PFagent, TRUE) >>
    /\ idx' = idx + 1
    /\ UNCHANGED <<nb, pc, MyTypes, solution, params_of, aLvl, MPCnow,
                   history, aLvl_all, raw_data, ret, stdout, env, heap, args,
                   calls, frame>>

\* the loop is left (plot1: after three passes; plot3: when the path is
\* within 0.0015 of the new steady state), the steady states are marked,
\* the figure is shown and None is returned
PlotShow ==
    /\ nb = "olg" /\ pc = "plot_path"
    /\ args.fn = "plot1" => idx = Plot1Arrows
    /\ log' = log \o << Call("plot", PFagent, TRUE),
                        Call("plot", PFagent, TRUE),
                        Call("show", PFagent, TRUE) >>
    /\ ret' = None
    /\ pc' = "olg_idle"
    /\ UNCHANGED <<nb, MyTypes, idx, solution, params_of, aLvl, MPCnow,
                   history, aLvl_all, raw_data, stdout, env, heap, args,
                   calls, frame>>

OlgNext ==
    \/ PlotCall
    \/ PlotAssign
    \/ PlotSolve
    \/ PlotFigure
    \/ PlotArrow
    \/ PlotShow

(***************************************************************************)
(* PerfForesightCRRA-SavingRate.ipynb                                      *)
(***************************************************************************)
\* dict_wealth, in 1/1000
dict_wealth ==
    [k \in {"CRRA", "Rfree", "DiscFac", "LivPrb", "PermGroFac", "AgentCount",
            "cycles", "T_cycle"} |->
        CASE k = "CRRA" -> <<2000>>
          [] k = "Rfree" -> <<1030>>
          [] k = "DiscFac" -> <<970>>
          [] k = "LivPrb" -> <<1000>>
          [] k = "PermGroFac" -> <<1010>>
          [] k = "AgentCount" -> <<1>>
          [] k = "cycles" -> <<0>>
          [] k = "T_cycle" -> <<1>>]

\* PFsavrate = PerfForesightConsumerType(**dict_wealth)
SavConstruct ==
    /\ nb = "sav" /\ pc = "sav_construct"
    /\ log' = Append(log, Call("construct", PFsavrate, TRUE))
    /\ params_of' = [params_of EXCEPT ![PFsavrate] = dict_wealth]
    /\ pc' = "sav_solve"
    /\ UNCHANGED <<nb, MyTypes, idx, solution, aLvl, MPCnow, history,
                   aLvl_all, raw_data, ret, stdout, env, heap, args, calls,
                   frame>>

SavSolve ==
    /\ nb = "sav" /\ pc = "sav_solve"
    /\ \E ok \in BOOLEAN :
          /\ solve(PFsavrate, ok)
          /\ pc' = IF ok THEN "sav_test" ELSE "raised"
    /\ UNCHANGED <<nb, MyTypes, idx, params_of, aLvl, MPCnow, history,
                   aLvl_all, raw_data, ret, stdout, env, heap, args, calls,
                   frame>>

\* test_c = PFsavrate.solution[0].cFunc(test_m), and the print
SavTest ==
    /\ nb = "sav" /\ pc = "sav_test"
    /\ cFunc(PFsavrate)
    /\ stdout' = Append(stdout, [label |-> Num(4, 1), value |-> None])
    /\ pc' = "sav_rate"
    /\ UNCHANGED <<nb, MyTypes, idx, solution, params_of, aLvl, MPCnow,
                   history, aLvl_all, raw_data, ret, env, heap, args, calls,
                   frame>>

\* c_t = PFsavrate.solution[0].cFunc(m_t), the saving rate and its plot
SavRate ==
    /\ nb = "sav" /\ pc = "sav_rate"
    /\ log' = log \o << Call("cFunc", PFsavrate, TRUE),
                        Call("plot", PFsavrate, TRUE) >>
    /\ pc' = "done"
    /\ UNCHANGED <<nb, MyTypes, idx, solution, params_of, aLvl, MPCnow,
                   history, aLvl_all, raw_data, ret, stdout, env, heap, args,
                   calls, frame>>

SavNext ==
    \/ SavConstruct
    \/ SavSolve
    \/ SavTest
    \/ SavRate

(***************************************************************************)
(* The notebooks.                                                          *)
(***************************************************************************)
Blank ==
    /\ log = <<>>
    /\ idx = 0
    /\ solution = [a \in AgentIds |-> None]
    /\ history = [a \in AgentIds |-> <<>>]
    /\ aLvl_all = <<>>
    /\ raw_data = <<>>
    /\ ret = None
    /\ stdout = <<>>
    /\ args = None
    /\ calls = 0
    /\ frame = None

\* MyTypes = [IndShockConsumerType(**cstwMPC_calibrated_parameters), ...]
InitAlt ==
    /\ nb = "alt" /\ pc = "alt_for"
    /\ \E n \in 0..MaxTypes : MyTypes = [j \in 1..n |-> j]
    /\ params_of = [a \in AgentIds |->
           IF a \in 1..Len(MyTypes) THEN cstwMPC_calibrated_parameters
           ELSE <<>>]
    /\ env = [d \in DictNames |-> 0]
    /\ heap = <<>>
    /\ Blank

\* from HARK... import init_lifecycle
InitLc ==
    /\ nb = "lc" /\ pc = "lc_parse"
    /\ MyTypes = <<>>
    /\ params_of = [a \in AgentIds |-> <<>>]
    /\ env = [d \in DictNames |-> IF d = "init_lifecycle" THEN 1 ELSE 0]
    /\ \E std \in StdVals : heap = << init_lifecycle(std) >>
    /\ Blank

InitOlg ==
    /\ nb = "olg" /\ pc = "olg_idle"
    /\ MyTypes = <<>>
    /\ params_of = [a \in AgentIds |-> <<>>]
    /\ env = [d \in DictNames |-> 0]
    /\ heap = <<>>
    /\ Blank

InitSav ==
    /\ nb = "sav" /\ pc = "sav_construct"
    /\ MyTypes = <<>>
    /\ params_of = [a \in AgentIds |-> <<>>]
    /\ env = [d \in DictNames |-> 0]
    /\ heap = <<>>
    /\ Blank

Unsimulated ==
    /\ aLvl = [a \in AgentIds |-> <<>>]
    /\ MPCnow = [a \in AgentIds |-> <<>>]

Init ==
    /\ InitAlt \/ InitLc \/ InitOlg \/ InitSav
    /\ Unsimulated

Next == AltNext \/ LcNext \/ OlgNext \/ SavNext

Spec == Init /\ [][Next]_vars

\* the statements of the cell of lines 155-158
AltLoop == AltFor \/ AltSolve \/ AltInitializeSim \/ AltSimulate

\* a cell that has started runs on: the kernel executes its statements one
\* after another and nothing cancels it
FairSpec == Spec /\ WF_vars(AltLoop)

(***************************************************************************)
(* The two functions of the exercises, called on simulated agent types.    *)
(* The state a call starts from is the one the loop over MyTypes leaves:   *)
(* every type 1..MaxTypes simulated, MyTypes any slice of them.            *)
(* The array the called function does not read is left empty.              *)
(***************************************************************************)
AllTypes == [j \in 1..MaxTypes |-> j]

\* the percentiles arguments drawn, in 1/PctDen
PctChoices == {1, 15, 20}

PctLists == UNION {[1..n -> PctChoices] : n \in 0..MaxPct}

InitCalls ==
    /\ nb \in {"describeMPCdstn", "calcLorenzDistance"}
    /\ pc = "call"
    /\ MyTypes \in Slices(AllTypes)
    /\ params_of = [a \in AgentIds |->
           IF a \in TypeIds THEN cstwMPC_calibrated_parameters ELSE <<>>]
    /\ env = [d \in DictNames |-> 0]
    /\ heap = <<>>
    /\ Blank
    /\ IF nb = "describeMPCdstn"
       THEN /\ MyTypes = AllTypes
            /\ aLvl = [a \in AgentIds |-> <<>>]
            /\ \E m \in [TypeIds -> MPCArrays] :
                  MPCnow = [a \in AgentIds |-> IF a \in TypeIds THEN m[a] ELSE <<>>]
       ELSE /\ MPCnow = [a \in AgentIds |-> <<>>]
            /\ \E w \in [TypeIds -> SimArrays] :
                  aLvl = [a \in AgentIds |-> IF a \in TypeIds THEN w[a] ELSE <<>>]

DescribeCall ==
    /\ nb = "describeMPCdstn" /\ pc = "call"
    /\ \E SomeTypes \in Slices(AllTypes), percentiles \in PctLists :
          Call_describeMPCdstn(SomeTypes, percentiles)
    /\ pc' = "returned"
    /\ UNCHANGED <<nb, log, MyTypes, idx, params_of, aLvl_all, raw_data,
                   env, heap, calls, frame>>

LorenzCall ==
    /\ nb = "calcLorenzDistance" /\ pc = "call"
    /\ \E SomeTypes \in Slices(AllTypes) : Call_calcLorenzDistance(SomeTypes)
    /\ pc' = "returned"
    /\ UNCHANGED <<nb, log, MyTypes, idx, params_of, aLvl_all, raw_data,
                   env, heap, calls, frame>>

NextCalls == DescribeCall \/ LorenzCall

SpecCalls == InitCalls /\ [][NextCalls]_vars

(***************************************************************************)
(* LC notebook, lines 241 and 406:                                         *)
(* Data["id"] = (Data["Age"].diff(1) < 0).cumsum().  The first difference  *)
(* is nan, and nan < 0 is False.                                           *)
(***************************************************************************)
Data_id(Age) ==
    [n \in 1..Len(Age) |->
        Cardinality({m \in 2..n : Age[m] - Age[m - 1] < 0})]

(***************************************************************************)
(* Arithmetic on fractions: the floats of the notebooks, kept exact.       *)
(***************************************************************************)
\* n/d in lowest terms with a positive denominator
Frac(n, d) == IF d < 0 THEN Rat(0 - n, 0 - d) ELSE Rat(n, d)

QAdd(x, y) == Frac(x.num * y.den + y.num * x.den, x.den * y.den)
QSub(x, y) == Frac(x.num * y.den - y.num * x.den, x.den * y.den)
QMul(x, y) == Frac(x.num * y.num, x.den * y.den)
\* x / y; a division by zero gives nan (numpy) 
QDiv(x, y) == IF y.num = 0 THEN NaN ELSE Frac(x.num * y.den, x.den * y.num)
QLess(x, y) == x.num * y.den < y.num * x.den
QAbs(x) == Num(Abs(x.num), x.den)
One == Num(1, 1)

(***************************************************************************)
(* PerfForesightCRRA-SavingRate.ipynb, lines 179-192: the saving rate at   *)
(* one point of the grid a_tm1.                                            *)
(***************************************************************************)
\* np.linspace(-1,4): 50 points by default
GridNum == 50
\* Rfree = 1.03 and PermGroFac = [1.01]
SavRfree == Num(103, 100)
SavGamma == Num(101, 100)

\* the i-th point of np.linspace(-1,4), i from 0
a_tm1(i) == Frac(-1 * (GridNum - 1) + (4 - (-1)) * i, GridNum - 1)

\* the policies solve() can return: perfect-foresight consumption is linear
\* in market resources, c(m) = kappa * (m + h)
SavPolicies ==
    {[kappa |-> Num(k, 10), h |-> Num(hw, 1)] : k \in {1, 3}, hw \in {0, 1}}

\* PFsavrate.solution[0].cFunc(m)
cFuncAt(pol, m) == QMul(pol.kappa, QAdd(m, pol.h))

cap_income_t(a) == QDiv(QMul(a, QSub(SavRfree, One)), SavGamma)

lab_income_t == One

\* market resources without the return on assets
m_t_noReturn(a) == QAdd(QDiv(a, SavGamma), One)

m_t(a) == QAdd(QDiv(QMul(a, SavRfree), SavGamma), One)

c_t(pol, a) == cFuncAt(pol, m_t(a))

sav_rate_t(pol, a) ==
    QDiv(QSub(QAdd(cap_income_t(a), lab_income_t), c_t(pol, a)),
         QAdd(cap_income_t(a), lab_income_t))

InitSavRate ==
    /\ nb = "sav_rate_t" /\ pc = "call"
    /\ MyTypes = <<>>
    /\ params_of = [a \in AgentIds |-> IF a = PFsavrate THEN dict_wealth ELSE <<>>]
    /\ env = [d \in DictNames |-> 0]
    /\ heap = <<>>
    /\ Unsimulated
    /\ log = <<>> /\ idx = 0
    /\ history = [a \in AgentIds |-> <<>>]
    /\ aLvl_all = <<>> /\ raw_data = <<>> /\ stdout = <<>> /\ calls = 0
    /\ ret = None /\ frame = None
    /\ \E pol \in SavPolicies :
          /\ solution = [a \in AgentIds |-> IF a = PFsavrate THEN pol ELSE None]
          /\ \E i \in 0..(GridNum - 1) :
                args = [fn |-> "sav_rate_t", i |-> i]

\* the statements of lines 182-192 at grid point i
SavRateAt ==
    /\ nb = "sav_rate_t" /\ pc = "call"
    /\ LET a == a_tm1(args.i)
           pol == solution[PFsavrate]
       IN  ret' = [cap_income_t |-> cap_income_t(a),
                   lab_income_t |-> lab_income_t,
                   m_t |-> m_t(a),
                   c_t |-> c_t(pol, a),
                   sav_rate_t |-> sav_rate_t(pol, a)]
    /\ pc' = "returned"
    /\ UNCHANGED <<nb, log, MyTypes, idx, solution, params_of, aLvl, MPCnow,
                   history, aLvl_all, raw_data, stdout, env, heap, args, calls,
                   frame>>

(***************************************************************************)
(* DiamondOLG: the capital paths of plot1 and plot3.  The floating-point   *)
(* values are kept as integers counted in units of 1/FUnit; every product  *)
(* and quotient is rounded down to that resolution.  Epsilon is 1/n for an *)
(* integer n, so that k**Epsilon is an n-th root.                          *)
(***************************************************************************)
FUnit == 10000

F(num, den) == (num * FUnit) \div den

FMul(x, y) == (x * y) \div FUnit

FDiv(x, y) == (x * FUnit) \div y

FAbs(x) == IF x < 0 THEN 0 - x ELSE x

RECURSIVE FPow(_, _)
FPow(x, n) ==
    IF n = 0 THEN FUnit
    ELSE IF n % 2 = 0
         THEN LET h == FPow(x, n \div 2) IN FMul(h, h)
         ELSE FMul(x, FPow(x, n - 1))

\* the largest y in lo..hi with y**n <= x
RECURSIVE FRootIn(_, _, _, _)
FRootIn(lo, hi, x, n) ==
    IF lo = hi THEN lo
    ELSE LET mid == (lo + hi + 1) \div 2
         IN  IF FPow(mid, n) <= x THEN FRootIn(mid, hi, x, n)
                                  ELSE FRootIn(lo, mid - 1, x, n)

\* x**(1/n) for 0 <= x <= 1
FRoot(x, n) == FRootIn(0, FUnit, x, n)

years_per_gen == 30

\* 1 - Epsilon, for Epsilon = 1/n
OneMinusEpsilon(n) == F(n - 1, n)

\* x**(1/(1-Epsilon)) = x * x**(1/(n-1))
PowInvOneMinusEpsilon(x, n) == FMul(x, FRoot(x, n - 1))

\* the consumption functions a solved two-period consumer can have: the
\* one of logarithmic utility, c = m/(1+Beta), and one that consumes less
PathPolicies(Beta) ==
    {[kappa |-> FDiv(FUnit, FUnit + Beta)], [kappa |-> F(1, 2)]}

cFuncPath(pol, m) == FMul(pol.kappa, m)

wage_of(kt, n) == FMul(OneMinusEpsilon(n), FRoot(kt, n))

\* plot1, lines 72-75
plot1_locals(n, DiscFac, PopGrowth, Initialk) ==
    LET Beta == FPow(DiscFac, years_per_gen)
        xi == FPow(PopGrowth, years_per_gen)
        Q == FDiv(FMul(OneMinusEpsilon(n), FDiv(Beta, FUnit + Beta)), xi)
    IN  [Epsilon |-> n, Beta |-> Beta, xi |-> xi, Q |-> Q,
         kBar |-> PowInvOneMinusEpsilon(Q, n),
         kt |-> Initialk, i |-> 0, arrows |-> <<>>]

\* plot1, lines 107-110: one pass of the loop body
plot1_k1_saveAll(pol, fr) == FDiv(wage_of(fr.kt, fr.Epsilon), fr.xi)

plot1_k1(pol, fr) ==
    LET wage == wage_of(fr.kt, fr.Epsilon)
        c == cFuncPath(pol, wage)
        a == wage - c
    IN  FDiv(a, fr.xi)

\* the residual handed to sp.optimize.root at line 401
PAYGResidual(k, Q, n, transfers) == k - FMul(Q, FRoot(k, n)) + transfers

NoRoot == [nan |-> TRUE]

Found(x) == [nan |-> FALSE, x |-> x]

\* what an unconverged search can leave in solution.x: nan, its start, or
\* another point of the interval it searched (kept to a grid of 0.005)
Unconverged(x0) ==
    {NoRoot, Found(x0)} \cup {Found(k) : k \in {j \in 1..x0 : j % F(5, 1000) = 0}}

\* the values sp.optimize.root can hand back when started at x0: the root
\* it reaches from x0, where the residual changes sign, and otherwise an
\* unconverged result
root_x(Q, n, transfers, x0) ==
    LET NonPos == {k \in 1..x0 : PAYGResidual(k, Q, n, transfers) <= 0}
    IN  IF NonPos # {}
        THEN {Found(CHOOSE k \in NonPos : \A j \in NonPos : j <= k)}
        ELSE Unconverged(x0)

\* plot3, lines 390-400
plot3_locals(n, DiscFac, Rfree, z) ==
    LET Beta == FPow(DiscFac, years_per_gen)
        xi == FPow(FUnit, years_per_gen)
        Q == FDiv(FMul(OneMinusEpsilon(n), FDiv(Beta, FUnit + Beta)), xi)
        kBar_old == PowInvOneMinusEpsilon(Q, n)
        transfers == FDiv(FMul(z, FUnit + FMul(Rfree, Beta)),
                          FMul(Rfree, FUnit + Beta))
    IN  [Epsilon |-> n, Beta |-> Beta, xi |-> xi, Q |-> Q, z |-> z,
         kBar_old |-> kBar_old, transfers |-> transfers,
         kt |-> kBar_old, arrows |-> <<>>]

\* plot3, lines 437-440: one pass of the loop body
plot3_k1(pol, fr) ==
    LET wage == wage_of(fr.kt, fr.Epsilon)
        net_wage == FMul(FUnit - fr.z, wage)
        c == cFuncPath(pol, net_wage)
    IN  FDiv(FMul(wage, FDiv(fr.Beta, FUnit + fr.Beta)) - fr.transfers,
             fr.xi)

\* 0.0015, line 435
PathTolerance == F(15, 10000)

\* np.abs(kBar_new - kt_PAYG) > 0.0015; a comparison with nan is False
FarFrom(kBar_new, kt) ==
    /\ ~kBar_new.nan
    /\ FAbs(kBar_new.x - kt) > PathTolerance

EpsilonChoices == {3, 4}

NumericBlank ==
    /\ MyTypes = <<>>
    /\ params_of = [a \in AgentIds |-> <<>>]
    /\ env = [d \in DictNames |-> 0]
    /\ heap = <<>>
    /\ Unsimulated
    /\ log = <<>> /\ idx = 0
    /\ history = [a \in AgentIds |-> <<>>]
    /\ aLvl_all = <<>> /\ raw_data = <<>> /\ stdout = <<>> /\ calls = 0
    /\ ret = None

\* a call plot1(Epsilon, DiscFac, PopGrowth, YearsPerGeneration, Initialk)
\* with slider values, lines 160-201
InitPlot1 ==
    /\ nb = "plot1" /\ pc = "loop"
    /\ NumericBlank
    /\ \E n \in EpsilonChoices, DiscFac \in {F(94, 100), F(96, 100), F(99, 100)},
          PopGrowth \in {F(98, 100), F(101, 100), F(105, 100)},
          Initialk \in {F(1, 100), F(5, 100), F(1, 10)} :
          /\ args = [fn |-> "plot1", Epsilon |-> n, DiscFac |-> DiscFac,
                     PopGrowth |-> PopGrowth, Initialk |-> Initialk]
          /\ frame = plot1_locals(n, DiscFac, PopGrowth, Initialk)
          /\ \E pol \in PathPolicies(frame.Beta) :
                solution = [a \in AgentIds |-> IF a = PFagent THEN pol ELSE None]

\* lines 104-126: one pass of "for i in range(3)"
Plot1Step ==
    /\ nb = "plot1" /\ pc = "loop"
    /\ frame.i < Plot1Arrows
    /\ LET k1 == plot1_k1(solution[PFagent], frame)
       IN  frame' = [frame EXCEPT !.kt = k1, !.i = @ + 1,
                                  !.arrows = Append(@, <<frame.kt, k1>>)]
    /\ UNCHANGED <<nb, pc, log, MyTypes, idx, solution, params_of, aLvl,
                   MPCnow, history, aLvl_all, raw_data, ret, stdout, env,
                   heap, args, calls>>

\* the loop is exhausted and the figure is shown, lines 128-143
Plot1Return ==
    /\ nb = "plot1" /\ pc = "loop"
    /\ frame.i = Plot1Arrows
    /\ pc' = "returned"
    /\ UNCHANGED <<nb, log, MyTypes, idx, solution, params_of, aLvl, MPCnow,
                   history, aLvl_all, raw_data, ret, stdout, env, heap, args,
                   calls, frame>>

\* a call plot3(Epsilon, DiscFac, Rfree, z) with slider values, lines
\* 486-525, up to line 432
InitPlot3 ==
    /\ nb = "plot3" /\ pc = "loop"
    /\ NumericBlank
    /\ \E n \in EpsilonChoices, DiscFac \in {F(95, 100), F(97, 100), F(99, 100)},
          Rfree \in {F(1, 1), F(11, 10)},
          z \in {0, F(5, 1000), F(2, 100)} :
          /\ args = [fn |-> "plot3", Epsilon |-> n, DiscFac |-> DiscFac,
                     Rfree |-> Rfree, z |-> z]
          /\ LET fr == plot3_locals(n, DiscFac, Rfree, z)
             IN  /\ \E x \in root_x(fr.Q, n, fr.transfers, fr.kBar_old) :
                       frame = [kBar_new |-> x] @@ fr
                 /\ \E pol \in PathPolicies(fr.Beta) :
                       solution = [a \in AgentIds |->
                                      IF a = PFagent THEN pol ELSE None]

\* lines 435-455: one pass of the while loop
Plot3Step ==
    /\ nb = "plot3" /\ pc = "loop"
    /\ FarFrom(frame.kBar_new, frame.kt)
    /\ frame.kt >= 0
    /\ LET k1 == plot3_k1(solution[PFagent], frame)
       IN  frame' = [frame EXCEPT !.kt = k1,
                                  !.arrows = Append(@, <<frame.kt, k1>>)]
    /\ UNCHANGED <<nb, pc, log, MyTypes, idx, solution, params_of, aLvl,
                   MPCnow, history, aLvl_all, raw_data, ret, stdout, env,
                   heap, args, calls>>

\* line 437 with kt_PAYG below zero: the power is no real number.  The
\* pass either raises in a library call handed the complex value, or the
\* loop goes on over complex values that the real kBar_new is never near
Plot3Raise ==
    /\ nb = "plot3" /\ pc = "loop"
    /\ FarFrom(frame.kBar_new, frame.kt)
    /\ frame.kt < 0
    /\ pc' \in {"raised", "complex"}
    /\ UNCHANGED <<nb, log, MyTypes, idx, solution, params_of, aLvl, MPCnow,
                   history, aLvl_all, raw_data, ret, stdout, env, heap, args,
                   calls, frame>>

\* the guard of line 435 is False: the figure is shown, lines 457-472
Plot3Return ==
    /\ nb = "plot3" /\ pc = "loop"
    /\ ~FarFrom(frame.kBar_new, frame.kt)
    /\ pc' = "returned"
    /\ UNCHANGED <<nb, log, MyTypes, idx, solution, params_of, aLvl, MPCnow,
                   history, aLvl_all, raw_data, ret, stdout, env, heap, args,
                   calls, frame>>

Plot3Loop == Plot3Step \/ Plot3Raise \/ Plot3Return

InitNumeric == InitSavRate \/ InitPlot1 \/ InitPlot3

NextNumeric ==
    \/ SavRateAt
    \/ Plot1Step
    \/ Plot1Return
    \/ Plot3Step
    \/ Plot3Raise
    \/ Plot3Return

SpecNumeric == InitNumeric /\ [][NextNumeric]_vars

FairNumeric == SpecNumeric /\ WF_vars(Plot3Loop)

(***************************************************************************)
(* Properties.                                                             *)
(***************************************************************************)
Before(k) == 1..(k - 1)

\* C1: on every agent that is simulated (each element of MyTypes, Agent,
\* Agent_nt) the calls come in the order solve(), initialize_sim(),
\* simulate(): a simulate() is preceded by an initialize_sim() of the same
\* agent that returned, and an initialize_sim() by a solve() that returned.
C1_SolveInitializeSimulate ==
    \A k \in 1..Len(log) :
        /\ log[k].op = "simulate" =>
              \E j \in Before(k) : log[j] = Call("initialize_sim", log[k].ag, TRUE)
        /\ log[k].op = "initialize_sim" =>
              \E j \in Before(k) : log[j] = Call("solve", log[k].ag, TRUE)

C1_Witness ==
    /\ nb = "alt"
    /\ Len(MyTypes) >= 2
    /\ \E k \in 1..Len(log) : log[k] = Call("simulate", MyTypes[2], TRUE)

\* the calls the loop makes when nothing raises: for each element of
\* MyTypes in list order, solve, initialize_sim, simulate
RECURSIVE LoopCalls(_)
LoopCalls(types) ==
    IF types = <<>> THEN <<>>
    ELSE << Call("solve", Head(types), TRUE),
            Call("initialize_sim", Head(types), TRUE),
            Call("simulate", Head(types), TRUE) >> \o LoopCalls(Tail(types))

InLoop == pc \in {"alt_for", "alt_solve", "alt_initialize_sim", "alt_simulate"}

IsPrefix(s, t) == Len(s) <= Len(t) /\ s = SubSeq(t, 1, Len(s))

NothingRaised == \A k \in 1..Len(log) : log[k].ok

\* C2: the loop over MyTypes handles the agent types one after another in
\* list order, each exactly once, one agent completely before the next; it
\* ends when the list is exhausted (or a call raises).
C2_LoopSequential ==
    /\ [](nb = "alt" /\ NothingRaised =>
             /\ IsPrefix(log, LoopCalls(MyTypes))
             /\ ~InLoop /\ pc # "raised" => log = LoopCalls(MyTypes))
    /\ (nb = "alt") ~> ~InLoop

C2_Witness ==
    /\ nb = "alt" /\ pc = "alt_aLvl_all"
    /\ Len(MyTypes) >= 2
    /\ Len(log) = 3 * Len(MyTypes)

Returned(fn) == args # None /\ args.fn = fn /\ pc \in {"returned", "done", "alt_functions"}

\* 1 - (1 - q)^4 written out for q = num/den
AnnualOf(q) ==
    IF q.nan THEN NaN
    ELSE LET d == q.den
             s == q.den - q.num
         IN  Num(d * d * d * d - s * s * s * s, d * d * d * d)

\* C3: describeMPCdstn reports, for each requested percentile, the value
\* 1 - (1 - q)^4 where q is that percentile of the quarterly MPCs pooled
\* over the agent types passed in.
C3_AnnualMPC ==
    Returned("describeMPCdstn") =>
        LET MPC_sim == np_concatenate(MPCnow, args.SomeTypes)
        IN  \A j \in 1..Len(args.percentiles) :
               /\ j <= Len(stdout)
               /\ stdout[j].value =
                     AnnualOf(get_percentiles(MPC_sim, <<args.percentiles[j]>>)[1])

C3_Witness ==
    /\ Returned("describeMPCdstn")
    /\ Len(args.SomeTypes) >= 2
    /\ MPCnow[args.SomeTypes[1]] # MPCnow[args.SomeTypes[2]]
    /\ \E j \in 1..Len(stdout) :
          /\ ~stdout[j].value.nan
          /\ stdout[j].value # AnnualOf(Num(MPCnow[args.SomeTypes[1]][1], MPCDen))
          /\ stdout[j].value # AnnualOf(Num(MPCnow[args.SomeTypes[2]][1], MPCDen))

\* C4: describeMPCdstn returns None; it prints one line per element of
\* percentiles, the j-th line for the j-th element, and nothing when
\* percentiles is empty.
C4_OneLinePerPercentile ==
    Returned("describeMPCdstn") =>
        /\ ret = None
        /\ Len(stdout) = Len(args.percentiles)
        /\ \A j \in 1..Len(args.percentiles) :
              stdout[j].label = Num(100 * args.percentiles[j], PctDen)

C4_Witness ==
    /\ Returned("describeMPCdstn")
    /\ Len(args.percentiles) = 2
    /\ args.percentiles[1] > args.percentiles[2]
    /\ Len(stdout) = 2

\* the distance the function would return if it pooled the assets of types
DistanceOver(types) ==
    lorenz_distance(get_lorenz_shares(np_concatenate(aLvl, types), lorenz_percentiles))

\* C5: the value calcLorenzDistance(SomeTypes) returns is computed from
\* the agent types in its argument SomeTypes: it is the distance over the
\* assets pooled from exactly those types, whatever the global MyTypes is.
C5_DependsOnArgument ==
    Returned("calcLorenzDistance") => ret = DistanceOver(args.SomeTypes)

\* sum over the four percentiles of (lorenz_SCF[k] - lorenz_sim[k])^2, as the
\* pair of the numerator and the denominator over (SCFDen * d)^2
SquaredDiffs(lorenz_sim) ==
    LET d == lorenz_sim[1].den
        e(k) == lorenz_SCF[k] * d - SCFDen * lorenz_sim[k].num
    IN  Rat(e(1) * e(1) + e(2) * e(2) + e(3) * e(3) + e(4) * e(4),
            (SCFDen * d) * (SCFDen * d))

\* the simulated Lorenz shares of line 230 in the call that has returned
lorenz_sim_of_call ==
    get_lorenz_shares(np_concatenate(aLvl, MyTypes), lorenz_percentiles)

\* C6: the value returned is the Euclidean distance between lorenz_SCF and
\* the simulated Lorenz shares at the 20th, 40th, 60th and 80th percentiles:
\* the square root of the sum of the four squared differences; it is never
\* negative, and it is zero exactly when the four shares equal lorenz_SCF
\* (the shares are undefined, and so is the distance, when the pooled assets
\* sum to zero).
C6_EuclideanDistance ==
    Returned("calcLorenzDistance") =>
        LET sim == lorenz_sim_of_call
            sq == SquaredDiffs(sim)
        IN  /\ Len(sim) = 4
            /\ IF \E k \in 1..4 : sim[k].nan
               THEN ret = NaN
               ELSE /\ ~ret.nan /\ ret.root
                    /\ ret.num = sq.num /\ ret.den = sq.den
                    /\ ret.num >= 0 /\ ret.den > 0
                    /\ ret.num = 0 <=>
                          \A k \in 1..4 :
                             lorenz_SCF[k] * sim[k].den = SCFDen * sim[k].num

C6_Witness ==
    /\ Returned("calcLorenzDistance")
    /\ ~ret.nan
    /\ ret.num > 0
    /\ Len(MyTypes) >= 2

\* C7: a solve() that raises is caught nowhere.  In the loop over MyTypes
\* it ends the run: no statement of the loop or after it is executed.  In
\* plot1 and plot3 it ends the call: nothing more of that call is executed,
\* and the next call recorded, if any, is the construction of a new agent.
C7_RaisePropagates ==
    \A k \in 1..Len(log) :
        log[k].op = "solve" /\ ~log[k].ok =>
            IF nb = "olg"
            THEN /\ k = Len(log) => pc = "olg_idle"
                 /\ k < Len(log) => log[k + 1].op = "construct"
            ELSE k = Len(log) /\ pc = "raised"

C7_Witness ==
    /\ nb = "alt" /\ pc = "raised"
    /\ Len(MyTypes) >= 2
    /\ log = <<Call("solve", MyTypes[1], FALSE)>>

ParamNames == {"cycles", "T_cycle", "PermGroFac", "LivPrb", "DiscFac", "CRRA"}

\* the position of the construction that starts the epoch entry k is in
EpochStart(k) ==
    LET cs == {j \in 1..k : log[j].op = "construct" /\ log[j].ag = log[k].ag}
    IN  IF cs = {} THEN 0 ELSE CHOOSE j \in cs : \A i \in cs : i <= j

\* C8: in plot1, plot3 and the saving-rate notebook the consumption
\* function is evaluated only on an agent whose solve() has returned, and
\* every reassignment of a parameter comes before the solve(): between the
\* construction of an agent and the end of its use, no parameter is assigned
\* after solve() and no cFunc is evaluated before it.
C8_SolveBeforeRead ==
    \A k \in 1..Len(log) :
        LET solved == \E j \in EpochStart(k)..(k - 1) :
                         j >= 1 /\ log[j].op = "solve" /\ log[j].ag = log[k].ag
            solvedOk == \E j \in EpochStart(k)..(k - 1) :
                         j >= 1 /\ log[j] = Call("solve", log[k].ag, TRUE)
        IN  /\ log[k].op = "cFunc" => solvedOk
            /\ log[k].op \in ParamNames => ~solved

C8_Witness ==
    /\ nb = "olg"
    /\ calls = 2
    /\ \E k \in 1..Len(log) : log[k].op = "cFunc" /\ EpochStart(k) > 1

ConsumerPcs == {"alt_aLvl_all", "alt_functions", "lc_raw_data",
                "lc_raw_data_nt", "plot_path", "sav_test", "sav_rate"}

ConsumerStepReadsOnly ==
    pc \in ConsumerPcs =>
        solution' = solution /\ aLvl' = aLvl /\ MPCnow' = MPCnow /\ history' = history

\* C9: the statements that consume a solution or a simulation (pooling
\* aLvl, describeMPCdstn, building raw_data, drawing the paths of plot1 and
\* plot3, computing the saving rate) only read: they leave every agent's
\* solution, aLvl, MPCnow and history as they were.
C9_ConsumersOnlyRead ==
    [][ConsumerStepReadsOnly]_vars

C9_Witness ==
    /\ nb = "lc" /\ pc = "lc_copy_nt"
    /\ raw_data # <<>>
    /\ \E n \in 1..Len(raw_data["Age"]) : raw_data["Age"][n] > birth_age
    /\ \A t \in 1..Len(history[Agent]["t_age"]) :
          \A i \in 1..Len(history[Agent]["t_age"][t]) :
             history[Agent]["t_age"][t][i] < birth_age

Bound(name) == env[name] # 0

SourceKept(source, copied) ==
    Bound(copied) \/ (Bound(source) /\ env'[copied] # 0) =>
        heap'[env'[source]] = Val(source)

\* C10: copy(d) followed by update() never changes d: init_lifecycle keeps
\* every entry it had while params is built from it, and params keeps every
\* entry it had while params_no_transitory is built from it.
C10_CopyLeavesSource ==
    [][SourceKept("init_lifecycle", "params")
          /\ SourceKept("params", "params_no_transitory")]_vars

C10_Witness ==
    /\ nb = "lc" /\ pc = "lc_construct_nt"
    /\ Val("params_no_transitory")["TranShkStd"] # Val("params")["TranShkStd"]
    /\ Val("params")["T_sim"] # Val("init_lifecycle")["T_sim"]

\* C11: params_no_transitory, once updated, has the keys of params and the
\* value of params under every key but TranShkStd; its TranShkStd is a list
\* of zeros as long as params["TranShkStd"]; Agent_nt is constructed from
\* it and Agent from params.
C11_OnlyTranShkStdDiffers ==
    nb = "lc" /\ Bound("params_no_transitory") /\ pc # "lc_update_nt" =>
        LET p == Val("params")
            q == Val("params_no_transitory")
        IN  /\ DOMAIN q = DOMAIN p
            /\ \A k \in DOMAIN p \ {"TranShkStd"} : q[k] = p[k]
            /\ Len(q["TranShkStd"]) = Len(p["TranShkStd"])
            /\ \A t \in 1..Len(q["TranShkStd"]) : q["TranShkStd"][t] = 0
            /\ params_of[Agent] = p
            /\ pc # "lc_construct_nt" => params_of[Agent_nt] = q

C11_Witness ==
    /\ nb = "lc" /\ pc = "lc_solve_nt"
    /\ Len(Val("params")["TranShkStd"]) >= 2
    /\ \A t \in 1..Len(Val("params")["TranShkStd"]) :
          Val("params")["TranShkStd"][t] # 0
    /\ params_of[Agent_nt]["TranShkStd"] = <<0, 0>>

\* C12: at every grid point a the saving rate computed is
\* (a*r/Gamma + 1 - c(a*R/Gamma + 1)) / (a*r/Gamma + 1) with r = Rfree - 1
\* and c the solved policy; capital income is a*(Rfree-1)/Gamma, labor
\* income is 1, and m_t = a/Gamma + capital income + labor income.
C12_SavingRateFormula ==
    Returned("sav_rate_t") =>
        LET a == a_tm1(args.i)
            r == Num(SavRfree.num - SavRfree.den, SavRfree.den)
            ar == QDiv(QMul(a, r), SavGamma)
            aR == QDiv(QMul(a, SavRfree), SavGamma)
            c == cFuncAt(solution[PFsavrate], QAdd(aR, One))
        IN  /\ ret.cap_income_t = ar
            /\ ret.lab_income_t = One
            /\ ret.m_t = QAdd(QAdd(QDiv(a, SavGamma), ret.cap_income_t),
                              ret.lab_income_t)
            /\ ret.sav_rate_t = QDiv(QSub(QAdd(ar, One), c), QAdd(ar, One))

C12_Witness ==
    /\ Returned("sav_rate_t")
    /\ args.i = GridNum - 1
    /\ ~ret.sav_rate_t.nan
    /\ ret.sav_rate_t.num # 0
    /\ ret.m_t # One

\* the parameters a call with arguments a solves under
ParamsFor(a) ==
    [k \in {"CRRA", "DiscFac", "LivPrb", "PermGroFac", "cycles", "T_cycle"} |->
        CASE k = "CRRA" -> <<1001>>
          [] k = "DiscFac" -> <<a.DiscFac>>
          [] k = "LivPrb" -> <<1000>>
          [] k = "PermGroFac" -> <<0>>
          [] k = "cycles" -> <<1>>
          [] k = "T_cycle" -> <<2>>]

RawDataAgent == IF pc = "done" THEN Agent_nt ELSE Agent

\* C18: two rows of the flattened history carry the same id exactly when
\* they are observations of the same agent slot within the same life (a life
\* begins at the first period and whenever the slot's age is reset to that
\* of a newborn), also when an individual dies after a single period and when
\* a slot's record ends at the age at which the next slot's record begins.
C18_IdIdentifiesIndividual ==
    nb = "lc" /\ pc \in {"lc_copy_nt", "done"} =>
        LET t_age == history[RawDataAgent]["t_age"]
            T == Len(t_age)
            id == Data_id(raw_data["Age"])
            slot(n) == ((n - 1) \div T) + 1
            period(n) == ((n - 1) % T) + 1
            life(n) == Cardinality({t \in 2..period(n) : t_age[t][slot(n)] = 1})
        IN  \A n, m \in 1..Len(raw_data["Age"]) :
               id[n] = id[m] <=> (slot(n) = slot(m) /\ life(n) = life(m))


(***************************************************************************)
(* C15: the while loop of plot3 terminates for every slider combination:  *)
(* the path from kBar_old comes within 0.0015 of kBar_new after finitely   *)
(* many passes, also with z = 0 and when the steady-state equation has no  *)
(* positive root.                                                          *)
(***************************************************************************)
HasRoot ==
    \E k \in 1..frame.kBar_old :
        PAYGResidual(k, frame.Q, frame.Epsilon, frame.transfers) <= 0

C15_WhileTerminates ==
    (nb = "plot3") ~> (/\ nb = "plot3" /\ pc = "returned"
                       /\ ~FarFrom(frame.kBar_new, frame.kt))

(***************************************************************************)
(* C16: in plot3 the next capital stock k1 is derived from the consumption *)
(* c that the solved policy returns for the net wage: a policy that        *)
(* returns a different c yields a different k1.                            *)
(***************************************************************************)
net_wage_of(fr, kt) == FMul(FUnit - fr.z, wage_of(kt, fr.Epsilon))

C16_K1FromPolicy ==
    (nb = "plot3" /\ frame.arrows # <<>>) =>
        LET arrow == frame.arrows[Len(frame.arrows)]
            before == [frame EXCEPT !.kt = arrow[1]]
            c == cFuncPath(solution[PFagent], net_wage_of(frame, arrow[1]))
        IN  \A other \in PathPolicies(frame.Beta) :
                cFuncPath(other, net_wage_of(frame, arrow[1])) # c
                    => plot3_k1(other, before) # arrow[2]

(***************************************************************************)
(* C17: with the policy that saves the share Beta/(1+Beta) of the wage,    *)
(* every pass of plot1's loop moves the capital stock toward kBar: the     *)
(* distance to kBar strictly falls, the path stays on its side of kBar,    *)
(* and a path at kBar stays there (all up to the rounding of the           *)
(* arithmetic).                                                            *)
(***************************************************************************)
LogPolicy(Beta) == [kappa |-> FDiv(FUnit, FUnit + Beta)]

\* the rounding of the arithmetic, in units of 1/FUnit
RoundOff == 4

Near(x, y) == FAbs(x - y) <= RoundOff

C17_PathConverges ==
    (nb = "plot1" /\ solution[PFagent] = LogPolicy(frame.Beta)) =>
        /\ \A j \in 1..Len(frame.arrows) :
              LET k == frame.arrows[j][1]
                  k1 == frame.arrows[j][2]
                  kBar == frame.kBar
              IN  /\ ~Near(k, kBar) => FAbs(kBar - k1) < FAbs(kBar - k)
                  /\ k < kBar - RoundOff => k < k1 /\ k1 <= kBar + RoundOff
                  /\ k > kBar + RoundOff => k > k1 /\ k1 >= kBar - RoundOff
                  /\ Near(k, kBar) => Near(k1, kBar)
        /\ Near(plot1_k1(solution[PFagent], [frame EXCEPT !.kt = frame.kBar]),
                frame.kBar)

C17_Witness ==
    /\ nb = "plot1" /\ pc = "returned"
    /\ solution[PFagent] = LogPolicy(frame.Beta)
    /\ Len(frame.arrows) = Plot1Arrows
    /\ frame.arrows[1][1] < frame.kBar - RoundOff
    /\ frame.arrows[Plot1Arrows][2] > frame.arrows[1][1]
====
